---- MODULE Spec2Model ----
(***************************************************************************)
(* Model of python/common/config_provider.py: ConfigProvider resolves a    *)
(* named parameter from four sources held in self.configuration, in the    *)
(* order command line, local properties file, environment, home            *)
(* properties file.                                                        *)
(*                                                                         *)
(* A string value is a sequence of one-character strings, so that          *)
(* startswith, endswith, slicing and += are modelled by what they do.      *)
(* A dict is a function whose DOMAIN is the set of its keys.               *)
(* The command line is taken to hold registered flags only: optparse ends  *)
(* the process on any other flag before a source is read.                  *)
(* The print call of _get_or_throw_exception writes to stdout only and is  *)
(* not part of the state.                                                  *)
(***************************************************************************)
EXTENDS Integers, Sequences, FiniteSets, TLC

VARIABLES argv, localFile, homeFile, environ, startEnviron, envChanges, phase, configuration, error, result

vars == <<argv, localFile, homeFile, environ, startEnviron, envChanges, phase, configuration, error, result>>

(* ---------------- bounds ---------------- *)

\* most entries the four raw sources hold for keys other than one common key
MaxOther == 0

\* most changes made to the process environment after construction
MaxEnvChanges == 1

\* longest S3 base path in the normalization specification
MaxLen == 3

(* ---------------- strings and dicts ---------------- *)

Chars == {"/", "a"}

Str(n) == UNION {[1..m -> Chars] : m \in 0..n}

\* the values the sources of the resolver specification hold: the empty
\* string, a plain value, a value with a leading slash and no trailing one
Values == {<<>>, <<"a">>, <<"/", "a">>}

\* the value of the entries for other keys
Filler == <<"a">>

EmptyDict == <<>>

\* key in d
Has(d, key) == key \in DOMAIN d

(* ---------------- the registry ---------------- *)

properties ==
    [BITMOVIN_API_KEY |-> "Your API key for the Bitmovin API.",
     HTTP_INPUT_HOST |-> "Hostname or IP address of the HTTP server hosting your input files, e.g.: my-storage.biz",
     HTTP_INPUT_FILE_PATH |-> "The path to your Http input file. Example: videos/1080p_Sintel.mp4",
     S3_OUTPUT_BUCKET_NAME |-> "The name of your S3 output bucket. Example: my-bucket-name",
     S3_OUTPUT_ACCESS_KEY |-> "The access key of your S3 output bucket.",
     S3_OUTPUT_SECRET_KEY |-> "The secret key of your S3 output bucket.",
     S3_OUTPUT_BASE_PATH |-> "The base path on your S3 output bucket. Example: /outputs",
     WATERMARK_IMAGE_PATH |-> "The path to the watermark image. Example: http://my-storage.biz/logo.png",
     TEXT_FILTER_TEXT |-> "The text to be displayed by the text filter.",
     DRM_KEY |-> "16 byte encryption key, represented as 32 hexadecimal characters Example: cab5b529ae28d5cc5e3e7bc3fd4a544d",
     DRM_FAIRPLAY_IV |-> "16 byte initialization vector, represented as 32 hexadecimal characters Example: 08eecef4b026deec395234d94218273d",
     DRM_FAIRPLAY_URI |-> "URI of the licensing server Example: skd://userspecifc?custom=information",
     DRM_WIDEVINE_KID |-> "16 byte encryption key id, represented as 32 hexadecimal characters Example: 08eecef4b026deec395234d94218273d",
     DRM_WIDEVINE_PSSH |-> "Base64 encoded PSSH payload Example: QWRvYmVhc2Rmc2FkZmFzZg=="]

\* the keys the sources of the model hold and the lookups ask for:
\* the post-processed key, a plain registered key, a key outside the registry
Keys == {"S3_OUTPUT_BASE_PATH", "DRM_KEY", "MY_KEY"}

(* ---------------- parsing the sources ---------------- *)

\* {k: v for k, v in dictionary.items() if v}
get_dict_with_set_values(dictionary) ==
    [k \in {x \in DOMAIN dictionary : dictionary[x] # <<>>} |-> dictionary[k]]

\* args: the options given on the command line, dest name -> value
parse_cli_arguments(args) ==
    IF DOMAIN args = {} THEN EmptyDict
    ELSE get_dict_with_set_values(args)

FileStatus == {"ok", "absent", "unreadable"}

Causes == {"PermissionError", "ParsingError"}

LocalDirectory == "."

HomeDirectory == "~/.bitmovin"

properties_file_path(directory) == directory \o "/examples.properties"

RuntimeError(directory, cause) ==
    [type |-> "RuntimeError",
     message |-> "Error reading properties file: " \o properties_file_path(directory),
     cause |-> cause]

NoError == [type |-> "", message |-> "", cause |-> ""]

\* without the except FileNotFoundError clause
parse_properties_file_no_handler(directory, file) ==
    IF file.status = "ok"
    THEN [raised |-> FALSE, value |-> get_dict_with_set_values(file.items), error |-> NoError]
    ELSE [raised |-> TRUE, value |-> EmptyDict,
          error |-> RuntimeError(directory, IF file.status = "absent" THEN "FileNotFoundError" ELSE file.cause)]

\* with every exception answered by return {}
parse_properties_file_swallow(directory, file) ==
    IF file.status = "ok"
    THEN [raised |-> FALSE, value |-> get_dict_with_set_values(file.items), error |-> NoError]
    ELSE [raised |-> FALSE, value |-> EmptyDict, error |-> NoError]

parse_properties_file(directory, file) ==
    IF file.status = "absent" THEN [raised |-> FALSE, value |-> EmptyDict, error |-> NoError]
    ELSE IF file.status = "ok"
         THEN [raised |-> FALSE, value |-> get_dict_with_set_values(file.items), error |-> NoError]
         ELSE [raised |-> TRUE, value |-> EmptyDict, error |-> RuntimeError(directory, file.cause)]

\* the environment placed in front of the other sources
build_configuration_env_first(cli, loc, env, sys) == <<env, cli, loc, sys>>

\* the dict literal of __init__, in insertion order; env is environ.copy()
build_configuration(cli, loc, env, sys) == <<cli, loc, env, sys>>

(* ---------------- lookup ---------------- *)

\* the environment read live instead of from the copy
sub_config_live(i) == IF i = 3 THEN environ ELSE configuration[i]

sub_config(i) == configuration[i]

Returned(key, value) ==
    [kind |-> "returned", key |-> key, value |-> value, description |-> ""]

MissingArgumentError(argument, description) ==
    [kind |-> "MissingArgumentError", key |-> argument, value |-> <<>>, description |-> description]

RECURSIVE scan(_, _)
\* the for loop of _get_or_throw_exception, from the i-th source on
scan(i, key) ==
    IF i > Len(configuration)
    THEN IF key \in DOMAIN properties
         THEN MissingArgumentError(key, properties[key])
         ELSE MissingArgumentError(key, "Configuration Parameter '" \o key \o "'")
    ELSE IF Has(sub_config(i), key)
         THEN Returned(key, sub_config(i)[key])
         ELSE scan(i + 1, key)

\* a loop that starts at the second source
get_or_throw_exception_from_second(key) == scan(2, key)

get_or_throw_exception(key) == scan(1, key)

startswith(s, c) == Len(s) > 0 /\ s[1] = c

endswith(s, c) == Len(s) > 0 /\ s[Len(s)] = c

RECURSIVE lstrip(_)
lstrip(s) == IF startswith(s, "/") THEN lstrip(SubSeq(s, 2, Len(s))) ELSE s

\* every leading slash removed
normalize_lstrip(s3_output_base_path) ==
    LET stripped == lstrip(s3_output_base_path)
    IN  IF ~endswith(stripped, "/") THEN stripped \o <<"/">> ELSE stripped

\* the slash appended whether or not the value ends with one
normalize_always_append(s3_output_base_path) ==
    LET stripped == IF startswith(s3_output_base_path, "/")
                    THEN SubSeq(s3_output_base_path, 2, Len(s3_output_base_path))
                    ELSE s3_output_base_path
    IN  stripped \o <<"/">>

\* the two if statements of get_s3_output_base_path
normalize(s3_output_base_path) ==
    LET stripped == IF startswith(s3_output_base_path, "/")
                    THEN SubSeq(s3_output_base_path, 2, Len(s3_output_base_path))
                    ELSE s3_output_base_path
    IN  IF ~endswith(stripped, "/") THEN stripped \o <<"/">> ELSE stripped

get_s3_output_base_path ==
    LET found == get_or_throw_exception("S3_OUTPUT_BASE_PATH")
    IN  IF found.kind = "MissingArgumentError" THEN found
        ELSE Returned(found.key, normalize(found.value))

\* the key of the neighbouring accessor
get_drm_key_wrong_key == get_or_throw_exception("DRM_FAIRPLAY_IV")

get_drm_key == get_or_throw_exception("DRM_KEY")

get_parameter_by_key(key_name) == get_or_throw_exception(key_name)

(* ---------------- state ---------------- *)

Sources == {"argv", "local", "environ", "home"}

\* a flag exists for registered keys only (dest=name for name in _properties)
Positions == {p \in Sources \X Keys : p[1] = "argv" => p[2] \in DOMAIN properties}

Entries(P, val, s) == [k \in {x \in Keys : <<s, x>> \in P} |-> val[<<s, k>>]]

File(status, items, cause) == [status |-> status, items |-> items, cause |-> cause]

CausesOf(status) == IF status = "unreadable" THEN Causes ELSE {""}

NoResult == [call |-> "", kind |-> "", key |-> "", value |-> <<>>, description |-> ""]

Called(name, outcome) ==
    [call |-> name, kind |-> outcome.kind, key |-> outcome.key,
     value |-> outcome.value, description |-> outcome.description]

Fresh ==
    /\ phase = "start"
    /\ configuration = <<>>
    /\ error = NoError
    /\ result = NoResult
    /\ startEnviron = environ
    /\ envChanges = 0

\* the entries of Q that are not for key f
Others(Q, f) == {p \in Q : p[2] # f}

\* every content of the four sources in which one key f is held by any of
\* the sources, with any of the values, next to at most MaxOther entries for
\* other keys
Init ==
    /\ \E f \in Keys :
       \E P \in {Q \in SUBSET Positions : Cardinality(Others(Q, f)) <= MaxOther} :
       \E val \in [P -> Values] :
       \E ls \in FileStatus, hs \in FileStatus :
       \E lc \in CausesOf(ls), hc \in CausesOf(hs) :
          /\ \A p \in Others(P, f) : val[p] = Filler
          /\ ls # "ok" => \A k \in Keys : <<"local", k>> \notin P
          /\ hs # "ok" => \A k \in Keys : <<"home", k>> \notin P
          /\ argv = Entries(P, val, "argv")
          /\ localFile = File(ls, Entries(P, val, "local"), lc)
          /\ environ = Entries(P, val, "environ")
          /\ homeFile = File(hs, Entries(P, val, "home"), hc)
    /\ Fresh

(* ---------------- operations ---------------- *)

\* ConfigProvider(): the dict literal of __init__ is evaluated in order
ConfigProvider_init ==
    /\ phase = "start"
    /\ LET cli == parse_cli_arguments(argv)
           loc == parse_properties_file(LocalDirectory, localFile)
           env == environ
           sys == parse_properties_file(HomeDirectory, homeFile)
       IN  IF loc.raised
           THEN /\ phase' = "failed"
                /\ error' = loc.error
                /\ UNCHANGED configuration
           ELSE IF sys.raised
           THEN /\ phase' = "failed"
                /\ error' = sys.error
                /\ UNCHANGED configuration
           ELSE /\ phase' = "constructed"
                /\ configuration' = build_configuration(cli, loc.value, env, sys.value)
                /\ UNCHANGED error
    /\ UNCHANGED <<argv, localFile, homeFile, environ, startEnviron, envChanges, result>>

\* the normalized value stored back into the source it came from
Call_get_s3_output_base_path_writeback ==
    /\ phase = "constructed"
    /\ result' = Called("get_s3_output_base_path", get_s3_output_base_path)
    /\ configuration' =
          [i \in 1..Len(configuration) |->
              IF Has(configuration[i], "S3_OUTPUT_BASE_PATH")
              THEN [configuration[i] EXCEPT !["S3_OUTPUT_BASE_PATH"] = normalize(@)]
              ELSE configuration[i]]
    /\ UNCHANGED <<argv, localFile, homeFile, environ, startEnviron, envChanges, phase, error>>

Call_get_s3_output_base_path ==
    /\ phase = "constructed"
    /\ result' = Called("get_s3_output_base_path", get_s3_output_base_path)
    /\ UNCHANGED <<argv, localFile, homeFile, environ, startEnviron, envChanges, phase, configuration, error>>

Call_get_drm_key ==
    /\ phase = "constructed"
    /\ result' = Called("get_drm_key", get_drm_key)
    /\ UNCHANGED <<argv, localFile, homeFile, environ, startEnviron, envChanges, phase, configuration, error>>

Call_get_parameter_by_key(key_name) ==
    /\ phase = "constructed"
    /\ result' = Called("get_parameter_by_key", get_parameter_by_key(key_name))
    /\ UNCHANGED <<argv, localFile, homeFile, environ, startEnviron, envChanges, phase, configuration, error>>

\* os.environ[key] = value, by the program that owns the resolver;
\* startEnviron keeps the environment the process was started with
putenv(key, value) ==
    /\ phase = "constructed"
    /\ envChanges < MaxEnvChanges
    /\ envChanges' = envChanges + 1
    /\ environ' = [k \in DOMAIN environ \cup {key} |-> IF k = key THEN value ELSE environ[k]]
    /\ UNCHANGED <<argv, localFile, homeFile, startEnviron, phase, configuration, error, result>>

\* del os.environ[key]
unsetenv(key) ==
    /\ phase = "constructed"
    /\ envChanges < MaxEnvChanges
    /\ envChanges' = envChanges + 1
    /\ key \in DOMAIN environ
    /\ environ' = [k \in DOMAIN environ \ {key} |-> environ[k]]
    /\ UNCHANGED <<argv, localFile, homeFile, startEnviron, phase, configuration, error, result>>

Next ==
    \/ ConfigProvider_init
    \/ Call_get_s3_output_base_path
    \/ Call_get_drm_key
    \/ \E k \in Keys : Call_get_parameter_by_key(k)
    \/ \E k \in Keys : \E v \in Values : putenv(k, v)
    \/ \E k \in Keys : unsetenv(k)

Spec == Init /\ [][Next]_vars

(* ---------------- S3 base path normalization on longer values ---------------- *)

S3Key == "S3_OUTPUT_BASE_PATH"

\* one source holds S3_OUTPUT_BASE_PATH, with any value of at most MaxLen
\* characters; no properties file exists unless it is that source
NormInit ==
    /\ \E s \in Sources : \E v \in Str(MaxLen) :
       LET held == [k \in {S3Key} |-> v]
       IN  /\ argv = IF s = "argv" THEN held ELSE EmptyDict
           /\ localFile = IF s = "local" THEN File("ok", held, "") ELSE File("absent", EmptyDict, "")
           /\ environ = IF s = "environ" THEN held ELSE EmptyDict
           /\ homeFile = IF s = "home" THEN File("ok", held, "") ELSE File("absent", EmptyDict, "")
    /\ Fresh

NormNext ==
    \/ ConfigProvider_init
    \/ Call_get_s3_output_base_path
    \/ Call_get_parameter_by_key(S3Key)

NormSpec == NormInit /\ [][NormNext]_vars

(* ---------------- what the sources hold, read off the raw inputs ---------------- *)

Order == <<"argv", "local", "environ", "home">>

RawDict(s) ==
    CASE s = "argv" -> argv
      [] s = "local" -> IF localFile.status = "ok" THEN localFile.items ELSE EmptyDict
      [] s = "environ" -> startEnviron
      [] s = "home" -> IF homeFile.status = "ok" THEN homeFile.items ELSE EmptyDict

\* source s gives key a value that is not the empty string
NonEmpty(s, key) == key \in DOMAIN RawDict(s) /\ RawDict(s)[key] # <<>>

\* the construction keeps the entry of source s for key: a flag or a
\* property with a value that is not empty, a variable set in the environment
Keeps(s, key) ==
    IF s = "environ" THEN key \in DOMAIN RawDict(s) ELSE NonEmpty(s, key)

PlainCalls == {"get_drm_key", "get_parameter_by_key"}

Outcome(r) == [kind |-> r.kind, key |-> r.key, value |-> r.value, description |-> r.description]


(* ---------------- C1 ---------------- *)

\* the i-th mapping of the resolver holds nothing but entries of the source s
FromSource(i, s) ==
    \A k \in DOMAIN configuration[i] : k \in DOMAIN RawDict(s) /\ configuration[i][k] = RawDict(s)[k]

\* C1: the mappings of the resolver are, in this order, those of the command
\* line, the local properties file, the environment and the home properties
\* file, and a lookup of K (get_drm_key or get_parameter_by_key) returns the
\* value of the first of them that contains K, as that source gave it,
\* whatever the later ones hold.
PriorityOrder ==
    (phase = "constructed" /\ result.call \in PlainCalls) =>
        /\ \A i \in 1..4 : FromSource(i, Order[i])
        /\ configuration[3] = startEnviron
        /\ \A i \in 1..4 :
              (Has(configuration[i], result.key) /\ \A h \in 1..(i - 1) : ~Has(configuration[h], result.key))
                  => /\ result.kind = "returned"
                     /\ result.value = configuration[i][result.key]
                     /\ result.value = RawDict(Order[i])[result.key]

\* a lookup answered by a source while a later source holds another value
PriorityOrderWitness ==
    /\ phase = "constructed" /\ result.call \in PlainCalls
    /\ result.kind = "returned"
    /\ \E i \in 1..4 : \E j \in 1..4 :
          /\ i < j
          /\ Has(configuration[i], result.key) /\ Has(configuration[j], result.key)
          /\ \A h \in 1..(i - 1) : ~Has(configuration[h], result.key)
          /\ RawDict(Order[i])[result.key] # RawDict(Order[j])[result.key]
          /\ result.value = RawDict(Order[i])[result.key]

(* ---------------- C2 ---------------- *)

\* C2: a source that gives K the empty string counts as not containing K: a
\* lookup never returns the empty string, and it returns the value of the
\* first source, in priority order, that gives K a non-empty value.
EmptyValueIsAbsent ==
    (phase = "constructed" /\ result.call \in PlainCalls) =>
        /\ result.kind = "returned" => result.value # <<>>
        /\ \A i \in 1..4 :
              (NonEmpty(Order[i], result.key) /\ \A h \in 1..(i - 1) : ~NonEmpty(Order[h], result.key))
                  => /\ result.kind = "returned"
                     /\ result.value = RawDict(Order[i])[result.key]

(* ---------------- C3 ---------------- *)

RequestedKeys(call) ==
    CASE call = "get_drm_key" -> {"DRM_KEY"}
      [] call = "get_s3_output_base_path" -> {S3Key}
      [] call = "get_parameter_by_key" -> Keys
      [] OTHER -> {}

\* C3: a lookup of K fails with MissingArgumentError exactly when none of the
\* four sources of the resolver contains K; the error carries K, no value, and
\* the registry's description of K when K is registered, the text
\* "Configuration Parameter 'K'" otherwise.
MissingArgument ==
    (phase = "constructed" /\ result.call # "") =>
        /\ result.key \in RequestedKeys(result.call)
        /\ result.kind \in {"returned", "MissingArgumentError"}
        /\ Len(configuration) = 4
        /\ result.kind = "MissingArgumentError"
              <=> \A i \in 1..4 : result.key \notin DOMAIN configuration[i]
        /\ result.kind = "MissingArgumentError" =>
              /\ result.value = <<>>
              /\ result.key = "DRM_KEY" => result.description = properties.DRM_KEY
              /\ result.key = S3Key => result.description = properties.S3_OUTPUT_BASE_PATH
              /\ result.key = "MY_KEY" => result.description = "Configuration Parameter 'MY_KEY'"

\* a registered key that is missing from all four sources while they hold another key
MissingArgumentWitness ==
    /\ phase = "constructed"
    /\ result.kind = "MissingArgumentError"
    /\ result.key = "DRM_KEY"
    /\ result.description = properties.DRM_KEY
    /\ \E i \in 1..4 : DOMAIN configuration[i] # {}

(* ---------------- C4 ---------------- *)

\* get_s3_output_base_path has returned a normalized value
S3Returned ==
    /\ phase = "constructed"
    /\ result.call = "get_s3_output_base_path"
    /\ result.kind = "returned"

\* the value the lookup found, before normalization
S3Found == get_or_throw_exception(S3Key).value

\* C4 as stated: normalizing the normalized form of any value yields that
\* same normalized form.
NormalizationIdempotent ==
    S3Returned => normalize(result.value) = result.value

\* C4 as amended: normalizing the normalized form of v yields that same form
\* exactly when v does not start with two slashes followed by a further
\* character.
IdempotentUnlessDoubleSlash ==
    S3Returned =>
        (normalize(result.value) = result.value
            <=> ~(Len(S3Found) >= 3 /\ S3Found[1] = "/" /\ S3Found[2] = "/"))

\* a value with one leading slash, another character, normalized to a fixed point
IdempotentWitness ==
    /\ S3Returned
    /\ Len(S3Found) >= 2 /\ S3Found[1] = "/" /\ S3Found[2] # "/"
    /\ normalize(result.value) = result.value

(* ---------------- C5 ---------------- *)

\* C5: get_s3_output_base_path returns the found value v without its first
\* character when that is a slash, then with one slash appended unless what
\* is left ends with a slash; the returned value ends with a slash, and a v
\* with no leading or trailing slash comes back as v followed by a slash.
S3Normalization ==
    S3Returned =>
        LET v == S3Found
            s == IF Len(v) >= 1 /\ Head(v) = "/" THEN Tail(v) ELSE v
            r == result.value
        IN  /\ r = IF Len(s) >= 1 /\ s[Len(s)] = "/" THEN s ELSE Append(s, "/")
            /\ Len(r) >= 1 /\ r[Len(r)] = "/"
            /\ (Len(v) >= 1 /\ v[1] # "/" /\ v[Len(v)] # "/") => r = v \o <<"/">>

\* a found value that loses its leading slash and gains a trailing one
S3NormalizationWitness ==
    /\ S3Returned
    /\ Len(S3Found) >= 2 /\ S3Found[1] = "/" /\ S3Found[Len(S3Found)] # "/"
    /\ result.value = Tail(S3Found) \o <<"/">>

(* ---------------- C6 ---------------- *)

\* the outcome r is the answer of the sources with the indices I alone, as
\* they were when the resolver was constructed
AnswerOf(I, r) ==
    /\ \A i \in I :
          (Keeps(Order[i], r.key) /\ \A h \in {x \in I : x < i} : ~Keeps(Order[h], r.key))
              => r.kind = "returned" /\ r.value = RawDict(Order[i])[r.key]
    /\ (\A i \in I : ~Keeps(Order[i], r.key)) => r.kind = "MissingArgumentError"

\* C6: the environment source is the environment as it was at construction:
\* whatever the process environment has become since, every lookup on the
\* resolver has the outcome it had right after construction, the one the
\* four sources as they were then determine.
EnvironmentSnapshot ==
    phase = "constructed" =>
        /\ configuration[3] = startEnviron
        /\ \A k \in Keys : get_parameter_by_key(k).key = k /\ AnswerOf(1..4, get_parameter_by_key(k))
        /\ result.call \in PlainCalls => Outcome(result) = get_parameter_by_key(result.key)

\* a lookup answered by the environment source with a value the process
\* environment no longer holds
EnvironmentSnapshotWitness ==
    /\ phase = "constructed" /\ environ # startEnviron
    /\ result.call \in PlainCalls /\ result.kind = "returned"
    /\ ~Has(configuration[1], result.key) /\ ~Has(configuration[2], result.key)
    /\ Has(configuration[3], result.key)
    /\ result.value = configuration[3][result.key]
    /\ (result.key \notin DOMAIN environ \/ environ[result.key] # result.value)
    /\ Outcome(result) = get_parameter_by_key(result.key)

(* ---------------- C7 ---------------- *)

\* C7: a properties file that does not exist gives an empty mapping and no
\* error: construction succeeds (the other file permitting) and a lookup is
\* answered by the remaining sources.
AbsentFileIsEmpty ==
    /\ (phase # "start" /\ localFile.status = "absent" /\ homeFile.status # "unreadable") =>
          phase = "constructed" /\ error = NoError /\ configuration[2] = EmptyDict
    /\ (phase # "start" /\ homeFile.status = "absent" /\ localFile.status # "unreadable") =>
          phase = "constructed" /\ error = NoError /\ configuration[4] = EmptyDict
    /\ (phase = "constructed" /\ result.call \in PlainCalls) =>
          /\ localFile.status = "absent" => AnswerOf({1, 3, 4}, result)
          /\ homeFile.status = "absent" => AnswerOf({1, 2, 3}, result)

\* no local file, and a lookup that falls through it to a later source
AbsentFileWitness ==
    /\ phase = "constructed"
    /\ localFile.status = "absent"
    /\ result.call \in PlainCalls /\ result.kind = "returned"
    /\ ~Keeps("argv", result.key)
    /\ Keeps("environ", result.key) \/ Keeps("home", result.key)

(* ---------------- C8 ---------------- *)

\* C8: a properties file that exists but cannot be read or parsed makes the
\* construction fail with a RuntimeError that names the path of the file and
\* carries the cause; no resolver exists and no lookup is ever answered.
UnreadableFileFails ==
    /\ (phase # "start" /\ localFile.status = "unreadable") =>
          /\ phase = "failed" /\ configuration = <<>> /\ result = NoResult
          /\ error.type = "RuntimeError"
          /\ error.message = "Error reading properties file: ./examples.properties"
          /\ error.cause = localFile.cause
    /\ (phase # "start" /\ localFile.status # "unreadable" /\ homeFile.status = "unreadable") =>
          /\ phase = "failed" /\ configuration = <<>> /\ result = NoResult
          /\ error.type = "RuntimeError"
          /\ error.message = "Error reading properties file: ~/.bitmovin/examples.properties"
          /\ error.cause = homeFile.cause
    /\ phase = "failed" => localFile.status = "unreadable" \/ homeFile.status = "unreadable"

\* a failed construction although the remaining sources hold a key
UnreadableFileWitness ==
    /\ phase = "failed"
    /\ homeFile.status = "unreadable" /\ homeFile.cause = "ParsingError"
    /\ error.cause = "ParsingError"
    /\ \E k \in Keys : Keeps("local", k) /\ Keeps("environ", k)

(* ---------------- C9 ---------------- *)

\* C9 as stated: a typed accessor yields the outcome get_parameter_by_key
\* yields for its key, get_s3_output_base_path included.
RawSameAsTyped ==
    (phase = "constructed" /\ result.call \in {"get_drm_key", "get_s3_output_base_path"}) =>
        Outcome(result) = get_parameter_by_key(result.key)

\* C9 as amended: get_drm_key yields the outcome of get_parameter_by_key for
\* DRM_KEY; get_s3_output_base_path yields the MissingArgumentError of
\* get_parameter_by_key for S3_OUTPUT_BASE_PATH when the key is missing, and
\* otherwise the normalization of the value get_parameter_by_key returns,
\* which get_parameter_by_key itself returns without normalization.
RawSameAsTypedButNormalization ==
    /\ (phase = "constructed" /\ result.call = "get_drm_key") =>
          Outcome(result) = get_parameter_by_key("DRM_KEY")
    /\ (phase = "constructed" /\ result.call = "get_s3_output_base_path") =>
          LET raw == get_parameter_by_key(S3Key)
          IN  /\ result.kind = raw.kind
              /\ raw.kind = "MissingArgumentError" => Outcome(result) = raw
              /\ raw.kind = "returned" =>
                    /\ result.key = raw.key
                    /\ result.value = normalize(raw.value)
                    /\ \A i \in 1..4 :
                          (Has(configuration[i], S3Key) /\ \A h \in 1..(i - 1) : ~Has(configuration[h], S3Key))
                              => raw.value = configuration[i][S3Key]

\* get_drm_key answered by a source, as get_parameter_by_key would be
RawSameAsTypedWitness ==
    /\ phase = "constructed"
    /\ result.call = "get_drm_key" /\ result.kind = "returned"
    /\ result.value # <<>>
    /\ Outcome(result) = get_parameter_by_key("DRM_KEY")

(* ---------------- C10 ---------------- *)

\* C10: whatever lookups were made, answered or failed, normalized or not,
\* the four source mappings are, in their order, the mappings the
\* construction made of the four sources, and the last lookup would have the
\* same outcome if it were made again.
ReadOnlyAfterConstruction ==
    phase = "constructed" =>
        /\ Len(configuration) = 4
        /\ \A i \in 1..4 : \A k \in Keys :
              /\ Has(configuration[i], k) <=> Keeps(Order[i], k)
              /\ Has(configuration[i], k) => configuration[i][k] = RawDict(Order[i])[k]
        /\ \A i \in 1..4 : DOMAIN configuration[i] \subseteq Keys
        /\ result.call = "get_parameter_by_key" => Outcome(result) = get_parameter_by_key(result.key)
        /\ result.call = "get_drm_key" => Outcome(result) = get_drm_key
        /\ result.call = "get_s3_output_base_path" => Outcome(result) = get_s3_output_base_path

\* a normalized value was returned and the source still holds the value as given
ReadOnlyWitness ==
    /\ S3Returned
    /\ result.value # S3Found
    /\ \E i \in 1..4 : Has(configuration[i], S3Key) /\ configuration[i][S3Key] = S3Found

====
